---- MODULE Spec2Model ----
(***************************************************************************)
(* The tracer of ddtrace/tracer/tracer.go: the worker goroutine that owns  *)
(* the payload, the bounded trace and error channels, the flush requests,  *)
(* Stop / forceFlush, and the span factory StartSpan with its sampler.     *)
(*                                                                         *)
(* Spec        : the pipeline (worker + caller goroutines).                *)
(* SpecFair    : Spec with a scheduled worker, for the liveness properties.*)
(* SpecBurst   : pushTrace calls that the worker does not drain.           *)
(* SpecFlush   : a running tracer (no Stop) with pushTrace and forceFlush. *)
(* SpecSpan    : StartSpan and sample, over a growing store of spans.      *)
(* SpecPackage : the package's Start and Stop on internal.GlobalTracer.    *)
(***************************************************************************)
EXTENDS Integers, Sequences, FiniteSets, TLC

\* ------------------------------------------------------------------ bounds
\* Capacity of traceBuffer (tracer.go:96 sets 200; scaled down).
traceBufferSize == 2
\* Capacity of errorBuffer (tracer.go:99 sets 200; scaled down).
errorBufferSize == 2
\* payloadSizeLimit in units of one span (tracer.go:52 sets 5 MB; scaled down).
payloadSizeLimit == 2
\* Caller goroutines.
NThreads == 2
\* pushTrace calls over a run.
MaxPush == 4
\* Largest number of spans in one pushed trace.
MaxSpans == 2
\* Stop calls over a run.
MaxStop == 2
\* forceFlush calls over a run.
MaxFlush == 1
\* transport.send calls that return an error over a run.
MaxSendFail == 1
\* payload.push calls that return an error over a run.
MaxPushFail == 1
\* StartSpan calls over a run, and the number of distinct span and trace ids.
MaxStartSpan == 3
\* Tracers made by the package-level Start over a run.
MaxTracers == 3
\* Package-level Start and Stop calls over a run.
MaxCalls == 6

Threads == 1..NThreads

\* The workload: the k-th pushed trace holds between 1 and MaxSpans spans.
SpanCount(k) == 1 + (k % MaxSpans)

VARIABLES
    syncPush,        \* TRUE iff t.syncPush != nil (test-only synchronous mode)
    traceBuffer,     \* chan []*span, capacity traceBufferSize
    errorBuffer,     \* chan *tracerError, capacity errorBufferSize
    flushTracesReq,  \* chan struct{}, capacity 1: number of buffered requests
    flushErrorsReq,  \* chan struct{}, capacity 1: number of buffered requests
    stopped,         \* TRUE iff t.stopped is closed
    payload,         \* the traces held by t.payload, in push order
    wpc,             \* worker: position in worker()
    wcase,           \* worker: the select case being served
    wtrace,          \* worker: the trace received from traceBuffer
    wdone,           \* worker: the done channel received from flushAllReq (its caller)
    werr,            \* worker: argument of the pushError call in progress
    wret,            \* worker: where the pushError call in progress returns to
    tpc,             \* caller goroutines: position
    terr,            \* caller goroutines: argument of the pushError call in progress
    lastPush,        \* caller goroutines: id of the trace of the last pushTrace call (SpecFlush)
    pushed,          \* pushTrace calls made so far (the last trace id handed out)
    stopCalls,       \* Stop calls made so far
    flushCalls,      \* forceFlush calls made so far
    dequeued,        \* ids of the traces the worker received, in order
    rejected,        \* ids of the traces payload.push returned an error for
    exitReqs,        \* exit requests the worker received
    sentCount,       \* per trace id: transport.send calls whose payload held the trace
    sendFails,       \* transport.send calls that returned an error
    exitSnap,        \* payload and sentCount when the exit request was received
    wpre,            \* payload and sentCount when the flushTraces call in progress began
    spans,           \* StartSpan: the spans created so far
    samplerRate,     \* StartSpan: "none" (no RateSampler), "lt1" or "one"
    sampleLog,       \* StartSpan: indexes of the spans sampler.Sample was invoked on
    GlobalTracer,    \* internal.GlobalTracer: Noop or the id of a tracer made by newTracer
    Testing,         \* internal.Testing
    gworker,         \* per tracer made by Start: the state of its worker goroutine
    gpc,             \* the goroutine calling the package's Start and Stop: position
    gcalls           \* package-level Start and Stop calls made so far

pipeVars == <<syncPush, traceBuffer, errorBuffer, flushTracesReq, flushErrorsReq, stopped,
              payload, wpc, wcase, wtrace, wdone, werr, wret, tpc, terr, lastPush,
              pushed, stopCalls, flushCalls, dequeued, rejected,
              exitReqs, sentCount, sendFails, exitSnap, wpre>>
spanVars == <<spans, samplerRate, sampleLog>>
globalVars == <<GlobalTracer, Testing, gworker, gpc, gcalls>>
vars == <<pipeVars, spanVars, globalVars>>

\* ----------------------------------------------------------------- helpers
NoTrace == [id |-> 0, n |-> 0]
NoErr == [kind |-> "none", count |-> 0]

RECURSIVE SumSpans(_)
SumSpans(s) == IF s = <<>> THEN 0 ELSE Head(s).n + SumSpans(Tail(s))

Ids(s) == [i \in 1..Len(s) |-> s[i].id]
Range(s) == {s[i] : i \in 1..Len(s)}
Count(s, x) == Cardinality({i \in 1..Len(s) : s[i] = x})

\* payload.itemCount() and payload.size()
itemCount == Len(payload)
size == SumSpans(payload)

\* What a flush finds: the payload and the send counts so far.
NoSnap == [items |-> <<>>, sent |-> [k \in 1..MaxPush |-> 0]]
Snap == [items |-> payload, sent |-> sentCount]

\* the error constructors
traceBufferError(n) == [kind |-> "overflow", count |-> n]
encodingError == [kind |-> "encoding", count |-> 0]
transportError(n) == [kind |-> "transport", count |-> n]

\* ------------------------------------------------------------ channel steps
\* A send that queues a request behind a pending one (a request channel with
\* room for more than one request).
TrySignalQueued(req) == req + 1

\* A non-blocking send on a buffered channel: select { case ch <- x: default: }
TrySend(ch, cap, x) == IF Len(ch) < cap THEN Append(ch, x) ELSE ch
\* The same on a struct{} channel of capacity 1, held as a count.
TrySignal(req) == IF req < 1 THEN 1 ELSE req

\* pushError asking for a flush only when the error channel is more than half
\* full.
PeCheckStrict == IF Len(errorBuffer) > errorBufferSize \div 2 THEN "peReq" ELSE "peSend"

\* pushError, first statement: is the error channel at least half full?
PeCheck == IF Len(errorBuffer) >= errorBufferSize \div 2 THEN "peReq" ELSE "peSend"

\* Where pushTrace goes after its select: the rendezvous on syncPush, or return.
AfterPush == IF syncPush THEN "waitSync" ELSE "idle"

\* ------------------------------------------------------------------- Init
InitPipe ==
    /\ syncPush \in BOOLEAN
    /\ traceBuffer = <<>>
    /\ errorBuffer = <<>>
    /\ flushTracesReq = 0
    /\ flushErrorsReq = 0
    /\ stopped = FALSE
    /\ payload = <<>>
    /\ wpc = "select"
    /\ wcase = "none"
    /\ wtrace = NoTrace
    /\ wdone = 0
    /\ werr = NoErr
    /\ wret = "none"
    /\ tpc = [c \in Threads |-> "idle"]
    /\ terr = [c \in Threads |-> NoErr]
    /\ lastPush = [c \in Threads |-> 0]
    /\ pushed = 0
    /\ stopCalls = 0
    /\ flushCalls = 0
    /\ dequeued = <<>>
    /\ rejected = {}
    /\ exitReqs = 0
    /\ sentCount = [k \in 1..MaxPush |-> 0]
    /\ sendFails = 0
    /\ exitSnap = NoSnap
    /\ wpre = NoSnap

InitSpan ==
    /\ spans = <<>>
    /\ samplerRate = "none"
    /\ sampleLog = <<>>

\* Init of the span factory: the configured sampler is no RateSampler
\* ("none"), or a RateSampler with Rate() < 1 ("lt1") or Rate() = 1 ("one").
InitSampler ==
    /\ spans = <<>>
    /\ samplerRate \in {"none", "lt1", "one"}
    /\ sampleLog = <<>>

\* The package's globals (globaltracer.go:7, 11): the NoopTracer is installed,
\* no tracer has been made, the mock tracer is not active.
Noop == 0
InitGlobal ==
    /\ GlobalTracer = Noop
    /\ Testing = FALSE
    /\ gworker = [t \in 1..MaxTracers |-> "none"]
    /\ gpc = "idle"
    /\ gcalls = 0

Init == InitPipe /\ InitSpan /\ InitGlobal

\* -------------------------------------------------------- caller goroutines
callerVars == <<tpc, terr, lastPush, pushed, stopCalls, flushCalls>>
workerVars == <<wpc, wcase, wtrace, wdone, werr, wret>>
histVars == <<dequeued, rejected, exitReqs, sentCount, sendFails, exitSnap, wpre>>

\* pushTrace with its select replaced by a plain send, t.traceBuffer <- trace:
\* the call waits for room in the channel.
PushTraceSelectBlocking(c, n) ==
    /\ tpc[c] = "idle"
    /\ Len(traceBuffer) < traceBufferSize
    /\ pushed' = pushed + 1
    /\ traceBuffer' = Append(traceBuffer, [id |-> pushed + 1, n |-> n])
    /\ tpc' = [tpc EXCEPT ![c] = AfterPush]
    /\ UNCHANGED <<syncPush, errorBuffer, flushTracesReq, flushErrorsReq, stopped, payload,
                   workerVars, terr, stopCalls, flushCalls, histVars, spanVars, globalVars>>

\* pushTrace reporting the channel's length in place of len(trace).
PushTraceSelectMiscount(c, n) ==
    /\ tpc[c] = "idle"
    /\ pushed' = pushed + 1
    /\ IF Len(traceBuffer) < traceBufferSize
       THEN /\ traceBuffer' = Append(traceBuffer, [id |-> pushed + 1, n |-> n])
            /\ tpc' = [tpc EXCEPT ![c] = AfterPush]
            /\ UNCHANGED terr
       ELSE /\ terr' = [terr EXCEPT ![c] = traceBufferError(Len(traceBuffer))]
            /\ tpc' = [tpc EXCEPT ![c] = "peCheck"]
            /\ UNCHANGED traceBuffer
    /\ UNCHANGED <<syncPush, errorBuffer, flushTracesReq, flushErrorsReq, stopped, payload,
                   workerVars, stopCalls, flushCalls, histVars, spanVars, globalVars>>

\* pushTrace(trace) with len(trace) = n: the select on traceBuffer. A full
\* channel takes the default case and calls pushError(traceBufferError(n)).
\* The trace gets the next id.
PushTraceSelect(c, n) ==
    /\ tpc[c] = "idle"
    /\ pushed' = pushed + 1
    /\ IF Len(traceBuffer) < traceBufferSize
       THEN /\ traceBuffer' = Append(traceBuffer, [id |-> pushed + 1, n |-> n])
            /\ tpc' = [tpc EXCEPT ![c] = AfterPush]
            /\ UNCHANGED terr
       ELSE /\ terr' = [terr EXCEPT ![c] = traceBufferError(n)]
            /\ tpc' = [tpc EXCEPT ![c] = "peCheck"]
            /\ UNCHANGED traceBuffer
    /\ UNCHANGED <<syncPush, errorBuffer, flushTracesReq, flushErrorsReq, stopped, payload,
                   workerVars, stopCalls, flushCalls, histVars, spanVars, globalVars>>

\* A pushTrace call of goroutine c, within the run's budget of calls.
PushTrace(c) ==
    /\ pushed < MaxPush
    /\ PushTraceSelect(c, SpanCount(pushed + 1))
    /\ UNCHANGED lastPush

\* pushError called by a caller goroutine: the length test.
CallerPeCheck(c) ==
    /\ tpc[c] = "peCheck"
    /\ tpc' = [tpc EXCEPT ![c] = PeCheck]
    /\ UNCHANGED <<syncPush, traceBuffer, errorBuffer, flushTracesReq, flushErrorsReq,
                   stopped, payload, workerVars, terr, lastPush, pushed, stopCalls,
                   flushCalls, histVars, spanVars, globalVars>>

\* pushError: the non-blocking send on flushErrorsReq.
CallerPeReq(c) ==
    /\ tpc[c] = "peReq"
    /\ flushErrorsReq' = TrySignal(flushErrorsReq)
    /\ tpc' = [tpc EXCEPT ![c] = "peSend"]
    /\ UNCHANGED <<syncPush, traceBuffer, errorBuffer, flushTracesReq, stopped, payload,
                   workerVars, terr, lastPush, pushed, stopCalls, flushCalls, histVars,
                   spanVars, globalVars>>

\* pushError: the non-blocking send on errorBuffer; then pushTrace goes on.
CallerPeSend(c) ==
    /\ tpc[c] = "peSend"
    /\ errorBuffer' = TrySend(errorBuffer, errorBufferSize, terr[c])
    /\ terr' = [terr EXCEPT ![c] = NoErr]
    /\ tpc' = [tpc EXCEPT ![c] = AfterPush]
    /\ UNCHANGED <<syncPush, traceBuffer, flushTracesReq, flushErrorsReq, stopped, payload,
                   workerVars, lastPush, pushed, stopCalls, flushCalls, histVars, spanVars,
                   globalVars>>

\* Stop: the select on t.stopped. Closed: return. Open: go on to send on exitReq.
Stop(c) ==
    /\ tpc[c] = "idle"
    /\ stopCalls < MaxStop
    /\ stopCalls' = stopCalls + 1
    /\ tpc' = [tpc EXCEPT ![c] = IF stopped THEN "idle" ELSE "sendExit"]
    /\ UNCHANGED <<syncPush, traceBuffer, errorBuffer, flushTracesReq, flushErrorsReq,
                   stopped, payload, workerVars, terr, lastPush, pushed, flushCalls,
                   histVars, spanVars, globalVars>>

\* Stop: <-t.stopped returns once the channel is closed.
StopReturn(c) ==
    /\ tpc[c] = "waitStopped"
    /\ stopped
    /\ tpc' = [tpc EXCEPT ![c] = "idle"]
    /\ UNCHANGED <<syncPush, traceBuffer, errorBuffer, flushTracesReq, flushErrorsReq,
                   stopped, payload, workerVars, terr, lastPush, pushed, stopCalls,
                   flushCalls, histVars, spanVars, globalVars>>

\* forceFlush calling t.flushTraces() itself, in the caller's goroutine.
ForceFlushDirect(c) ==
    /\ tpc[c] = "idle"
    /\ flushCalls < MaxFlush
    /\ flushCalls' = flushCalls + 1
    /\ sentCount' = [k \in 1..MaxPush |->
                       IF k \in Range(Ids(payload)) THEN sentCount[k] + 1
                       ELSE sentCount[k]]
    /\ payload' = <<>>
    /\ UNCHANGED <<syncPush, traceBuffer, errorBuffer, flushTracesReq, flushErrorsReq,
                   stopped, workerVars, tpc, terr, lastPush, pushed, stopCalls,
                   dequeued, rejected, exitReqs, sendFails, exitSnap, wpre, spanVars,
                   globalVars>>

\* forceFlush: makes done and goes on to send it on flushAllReq.
ForceFlush(c) ==
    /\ tpc[c] = "idle"
    /\ flushCalls < MaxFlush
    /\ flushCalls' = flushCalls + 1
    /\ tpc' = [tpc EXCEPT ![c] = "sendFlushAll"]
    /\ UNCHANGED <<syncPush, traceBuffer, errorBuffer, flushTracesReq, flushErrorsReq,
                   stopped, payload, workerVars, terr, lastPush, pushed, stopCalls,
                   histVars, spanVars, globalVars>>

\* ------------------------------------------------------------------ worker
\* The worker is back at the top of its for/select loop.
ToSelect ==
    /\ wpc' = "select"
    /\ wcase' = "none"
    /\ wtrace' = NoTrace
    /\ wdone' = 0
    /\ werr' = NoErr
    /\ wret' = "none"

\* Where the worker goes when flushTraces returns: flush() goes on to
\* flushErrors, the flushTracesReq case is done.
AfterFlushTraces == IF wcase = "traces" THEN "select" ELSE "flushErrors"

\* Where the worker goes when flushErrors returns.
AfterFlushErrors ==
    CASE wcase = "all" -> "ack"
      [] wcase = "exit" -> "return"
      [] OTHER -> "select"

\* The worker moves to position pc; at the top of the loop its locals are dead.
WorkerGoto(pc) ==
    IF pc = "select"
    THEN ToSelect
    ELSE wpc' = pc /\ UNCHANGED <<wcase, wtrace, wdone, werr, wret>>

\* pushPayload ignoring the error of t.payload.push: no pushError call.
WorkerRecvTraceSilent ==
    /\ wpc = "select"
    /\ traceBuffer # <<>>
    /\ traceBuffer' = Tail(traceBuffer)
    /\ dequeued' = Append(dequeued, Head(traceBuffer).id)
    /\ wcase' = "trace"
    /\ wtrace' = Head(traceBuffer)
    /\ wpc' = "sizeCheck"
    /\ \/ /\ payload' = Append(payload, Head(traceBuffer))
          /\ UNCHANGED rejected
       \/ /\ Cardinality(rejected) < MaxPushFail
          /\ rejected' = rejected \cup {Head(traceBuffer).id}
          /\ UNCHANGED payload
    /\ UNCHANGED <<syncPush, errorBuffer, flushTracesReq, flushErrorsReq, stopped, wdone,
                   werr, wret, callerVars, exitReqs, sentCount, sendFails, exitSnap, wpre,
                   spanVars, globalVars>>

\* The worker receiving the newest queued trace in place of the oldest.
WorkerRecvTraceNewest ==
    /\ wpc = "select"
    /\ traceBuffer # <<>>
    /\ traceBuffer' = SubSeq(traceBuffer, 1, Len(traceBuffer) - 1)
    /\ dequeued' = Append(dequeued, traceBuffer[Len(traceBuffer)].id)
    /\ wcase' = "trace"
    /\ wtrace' = traceBuffer[Len(traceBuffer)]
    /\ \/ /\ payload' = Append(payload, traceBuffer[Len(traceBuffer)])
          /\ wpc' = "sizeCheck"
          /\ UNCHANGED <<werr, wret, rejected>>
       \/ /\ Cardinality(rejected) < MaxPushFail
          /\ rejected' = rejected \cup {traceBuffer[Len(traceBuffer)].id}
          /\ werr' = encodingError
          /\ wret' = "sizeCheck"
          /\ wpc' = "peCheck"
          /\ UNCHANGED payload
    /\ UNCHANGED <<syncPush, errorBuffer, flushTracesReq, flushErrorsReq, stopped, wdone,
                   callerVars, exitReqs, sentCount, sendFails, exitSnap, wpre, spanVars,
                   globalVars>>

\* case trace := <-t.traceBuffer, and pushPayload's t.payload.push(trace),
\* which either appends the trace or returns an error and leaves the payload.
WorkerRecvTrace ==
    /\ wpc = "select"
    /\ traceBuffer # <<>>
    /\ traceBuffer' = Tail(traceBuffer)
    /\ dequeued' = Append(dequeued, Head(traceBuffer).id)
    /\ wcase' = "trace"
    /\ wtrace' = Head(traceBuffer)
    /\ \/ /\ payload' = Append(payload, Head(traceBuffer))
          /\ wpc' = "sizeCheck"
          /\ UNCHANGED <<werr, wret, rejected>>
       \/ /\ Cardinality(rejected) < MaxPushFail
          /\ rejected' = rejected \cup {Head(traceBuffer).id}
          /\ werr' = encodingError
          /\ wret' = "sizeCheck"
          /\ wpc' = "peCheck"
          /\ UNCHANGED payload
    /\ UNCHANGED <<syncPush, errorBuffer, flushTracesReq, flushErrorsReq, stopped, wdone,
                   callerVars, exitReqs, sentCount, sendFails, exitSnap, wpre, spanVars,
                   globalVars>>

\* pushPayload: if t.payload.size() > payloadSizeLimit, a non-blocking send on
\* flushTracesReq; then the rendezvous on syncPush when it is non-nil.
WorkerSizeCheck ==
    /\ wpc = "sizeCheck"
    /\ flushTracesReq' = IF size > payloadSizeLimit THEN TrySignal(flushTracesReq)
                         ELSE flushTracesReq
    /\ WorkerGoto(IF syncPush THEN "syncSend" ELSE "select")
    /\ UNCHANGED <<syncPush, traceBuffer, errorBuffer, flushErrorsReq, stopped, payload,
                   callerVars, histVars, spanVars, globalVars>>

\* pushPayload: t.syncPush <- struct{}{} meets one pushTrace at <-t.syncPush.
WorkerSyncSend(c) ==
    /\ wpc = "syncSend"
    /\ tpc[c] = "waitSync"
    /\ tpc' = [tpc EXCEPT ![c] = "idle"]
    /\ ToSelect
    /\ UNCHANGED <<syncPush, traceBuffer, errorBuffer, flushTracesReq, flushErrorsReq,
                   stopped, payload, terr, lastPush, pushed, stopCalls, flushCalls,
                   histVars, spanVars, globalVars>>

\* The ticker case calling t.flushErrors() alone.
WorkerTickErrorsOnly ==
    /\ wpc = "select"
    /\ wcase' = "tick"
    /\ wpc' = "flushErrors"
    /\ UNCHANGED <<syncPush, traceBuffer, errorBuffer, flushTracesReq, flushErrorsReq,
                   stopped, payload, wtrace, wdone, werr, wret, callerVars,
                   histVars, spanVars, globalVars>>

\* case <-ticker.C: t.flush()
WorkerTick ==
    /\ wpc = "select"
    /\ wcase' = "tick"
    /\ wpc' = "flushTraces"
    /\ wpre' = Snap
    /\ UNCHANGED <<syncPush, traceBuffer, errorBuffer, flushTracesReq, flushErrorsReq,
                   stopped, payload, wtrace, wdone, werr, wret, callerVars, 
                   dequeued, rejected, exitReqs, sentCount, sendFails, exitSnap, spanVars,
                   globalVars>>

\* The flushAllReq case calling t.flushErrors() alone.
WorkerRecvFlushAllErrorsOnly(c) ==
    /\ wpc = "select"
    /\ tpc[c] = "sendFlushAll"
    /\ tpc' = [tpc EXCEPT ![c] = "waitDone"]
    /\ wdone' = c
    /\ wcase' = "all"
    /\ wpc' = "flushErrors"
    /\ UNCHANGED <<syncPush, traceBuffer, errorBuffer, flushTracesReq, flushErrorsReq,
                   stopped, payload, wtrace, werr, wret, terr, lastPush, pushed, stopCalls,
                   flushCalls, histVars, spanVars, globalVars>>

\* case done := <-t.flushAllReq meets forceFlush's t.flushAllReq <- done.
WorkerRecvFlushAll(c) ==
    /\ wpc = "select"
    /\ tpc[c] = "sendFlushAll"
    /\ tpc' = [tpc EXCEPT ![c] = "waitDone"]
    /\ wdone' = c
    /\ wcase' = "all"
    /\ wpc' = "flushTraces"
    /\ wpre' = Snap
    /\ UNCHANGED <<syncPush, traceBuffer, errorBuffer, flushTracesReq, flushErrorsReq,
                   stopped, payload, wtrace, werr, wret, terr, lastPush, pushed, stopCalls,
                   flushCalls, dequeued, rejected, exitReqs, sentCount, sendFails,
                   exitSnap, spanVars, globalVars>>

\* case <-t.flushTracesReq: t.flushTraces()
WorkerRecvFlushTraces ==
    /\ wpc = "select"
    /\ flushTracesReq > 0
    /\ flushTracesReq' = flushTracesReq - 1
    /\ wcase' = "traces"
    /\ wpc' = "flushTraces"
    /\ wpre' = Snap
    /\ UNCHANGED <<syncPush, traceBuffer, errorBuffer, flushErrorsReq, stopped, payload,
                   wtrace, wdone, werr, wret, callerVars, dequeued,
                   rejected, exitReqs, sentCount, sendFails, exitSnap, spanVars, globalVars>>

\* case <-t.flushErrorsReq: t.flushErrors()
WorkerRecvFlushErrors ==
    /\ wpc = "select"
    /\ flushErrorsReq > 0
    /\ flushErrorsReq' = flushErrorsReq - 1
    /\ wcase' = "errors"
    /\ wpc' = "flushErrors"
    /\ UNCHANGED <<syncPush, traceBuffer, errorBuffer, flushTracesReq, stopped, payload,
                   wtrace, wdone, werr, wret, callerVars, histVars, spanVars, globalVars>>

\* The exit case returning without the final t.flush().
WorkerRecvExitNoFlush(c) ==
    /\ wpc = "select"
    /\ tpc[c] = "sendExit"
    /\ tpc' = [tpc EXCEPT ![c] = "waitStopped"]
    /\ exitReqs' = exitReqs + 1
    /\ exitSnap' = Snap
    /\ wcase' = "exit"
    /\ wpc' = "return"
    /\ UNCHANGED <<syncPush, traceBuffer, errorBuffer, flushTracesReq, flushErrorsReq,
                   stopped, payload, wtrace, wdone, werr, wret, terr, lastPush, pushed,
                   stopCalls, flushCalls, dequeued, rejected, sentCount, sendFails, wpre,
                   spanVars, globalVars>>

\* case <-t.exitReq meets Stop's t.exitReq <- struct{}{}.
WorkerRecvExit(c) ==
    /\ wpc = "select"
    /\ tpc[c] = "sendExit"
    /\ tpc' = [tpc EXCEPT ![c] = "waitStopped"]
    /\ exitReqs' = exitReqs + 1
    /\ exitSnap' = Snap
    /\ wcase' = "exit"
    /\ wpc' = "flushTraces"
    /\ wpre' = Snap
    /\ UNCHANGED <<syncPush, traceBuffer, errorBuffer, flushTracesReq, flushErrorsReq,
                   stopped, payload, wtrace, wdone, werr, wret, terr, lastPush, pushed,
                   stopCalls, flushCalls, dequeued, rejected, sentCount, sendFails,
                   spanVars, globalVars>>

\* flushTraces: returns at once on an empty payload, else calls
\* t.config.transport.send(t.payload).
WorkerFlushTraces ==
    /\ wpc = "flushTraces"
    /\ IF itemCount = 0
       THEN /\ WorkerGoto(AfterFlushTraces)
            /\ wpre' = NoSnap
            /\ UNCHANGED sentCount
       ELSE /\ sentCount' = [k \in 1..MaxPush |->
                               IF k \in Range(Ids(payload)) THEN sentCount[k] + 1
                               ELSE sentCount[k]]
            /\ wpc' = "sending"
            /\ UNCHANGED <<wcase, wtrace, wdone, werr, wret, wpre>>
    /\ UNCHANGED <<syncPush, traceBuffer, errorBuffer, flushTracesReq, flushErrorsReq,
                   stopped, payload, callerVars, dequeued, rejected,
                   exitReqs, sendFails, exitSnap, spanVars, globalVars>>

\* flushTraces: transport.send returned nil: t.payload.reset().
WorkerSendOk ==
    /\ wpc = "sending"
    /\ payload' = <<>>
    /\ wpre' = NoSnap
    /\ WorkerGoto(AfterFlushTraces)
    /\ UNCHANGED <<syncPush, traceBuffer, errorBuffer, flushTracesReq, flushErrorsReq,
                   stopped, callerVars, dequeued, rejected, exitReqs,
                   sentCount, sendFails, exitSnap, spanVars, globalVars>>

\* flushTraces resetting the payload although transport.send returned an error.
WorkerSendErrReset ==
    /\ wpc = "sending"
    /\ sendFails < MaxSendFail
    /\ sendFails' = sendFails + 1
    /\ werr' = transportError(itemCount)
    /\ wret' = AfterFlushTraces
    /\ wpc' = "peCheck"
    /\ payload' = <<>>
    /\ UNCHANGED <<syncPush, traceBuffer, errorBuffer, flushTracesReq, flushErrorsReq,
                   stopped, wcase, wtrace, wdone, callerVars, dequeued, rejected,
                   exitReqs, sentCount, exitSnap, wpre, spanVars, globalVars>>

\* flushTraces dropping the error of transport.send: no pushError call.
WorkerSendErrSilent ==
    /\ wpc = "sending"
    /\ sendFails < MaxSendFail
    /\ sendFails' = sendFails + 1
    /\ wpre' = NoSnap
    /\ WorkerGoto(AfterFlushTraces)
    /\ UNCHANGED <<syncPush, traceBuffer, errorBuffer, flushTracesReq, flushErrorsReq,
                   stopped, payload, callerVars, dequeued, rejected,
                   exitReqs, sentCount, exitSnap, spanVars, globalVars>>

\* flushTraces: transport.send returned an error:
\* t.pushError(transportError(err, t.payload.itemCount())), the payload is kept.
WorkerSendErr ==
    /\ wpc = "sending"
    /\ sendFails < MaxSendFail
    /\ sendFails' = sendFails + 1
    /\ werr' = transportError(itemCount)
    /\ wret' = AfterFlushTraces
    /\ wpc' = "peCheck"
    /\ UNCHANGED <<syncPush, traceBuffer, errorBuffer, flushTracesReq, flushErrorsReq,
                   stopped, payload, wcase, wtrace, wdone, callerVars, dequeued, rejected,
                   exitReqs, sentCount, exitSnap, wpre,
                   spanVars, globalVars>>

\* pushError called by the worker: the length test.
WorkerPeCheck ==
    /\ wpc = "peCheck"
    /\ wpc' = PeCheck
    /\ UNCHANGED <<syncPush, traceBuffer, errorBuffer, flushTracesReq, flushErrorsReq,
                   stopped, payload, wcase, wtrace, wdone, werr, wret, callerVars,
                   histVars, spanVars, globalVars>>

\* pushError called by the worker: the non-blocking send on flushErrorsReq.
WorkerPeReq ==
    /\ wpc = "peReq"
    /\ flushErrorsReq' = TrySignal(flushErrorsReq)
    /\ wpc' = "peSend"
    /\ UNCHANGED <<syncPush, traceBuffer, errorBuffer, flushTracesReq, stopped, payload,
                   wcase, wtrace, wdone, werr, wret, callerVars, histVars, spanVars,
                   globalVars>>

\* pushError called by the worker: the non-blocking send on errorBuffer, and
\* the return to pushPayload or out of flushTraces.
WorkerPeSend ==
    /\ wpc = "peSend"
    /\ errorBuffer' = TrySend(errorBuffer, errorBufferSize, werr)
    /\ IF wret = "select"
       THEN ToSelect
       ELSE wpc' = wret /\ werr' = NoErr /\ wret' = "none" /\ UNCHANGED <<wcase, wtrace, wdone>>
    /\ wpre' = IF werr.kind = "transport" THEN NoSnap ELSE wpre
    /\ UNCHANGED <<syncPush, traceBuffer, flushTracesReq, flushErrorsReq, stopped, payload,
                   callerVars, dequeued, rejected, exitReqs, sentCount, sendFails,
                   exitSnap, spanVars, globalVars>>

\* flushErrors: logErrors(t.errorBuffer) takes every queued record and logs it.
WorkerFlushErrors ==
    /\ wpc = "flushErrors"
    /\ errorBuffer' = <<>>
    /\ WorkerGoto(AfterFlushErrors)
    /\ UNCHANGED <<syncPush, traceBuffer, flushTracesReq, flushErrorsReq, stopped, payload,
                   callerVars, dequeued, rejected, exitReqs, sentCount, sendFails,
                   exitSnap, wpre, spanVars, globalVars>>

\* case flushAllReq: done <- struct{}{} meets forceFlush's <-done.
WorkerAck ==
    /\ wpc = "ack"
    /\ tpc[wdone] = "waitDone"
    /\ tpc' = [tpc EXCEPT ![wdone] = "idle"]
    /\ ToSelect
    /\ UNCHANGED <<syncPush, traceBuffer, errorBuffer, flushTracesReq, flushErrorsReq,
                   stopped, payload, terr, lastPush, pushed, stopCalls, flushCalls,
                   histVars, spanVars, globalVars>>

\* case exitReq: return, and the deferred close(t.stopped).
WorkerReturn ==
    /\ wpc = "return"
    /\ stopped' = TRUE
    /\ wpc' = "done"
    /\ wcase' = "none"
    /\ UNCHANGED <<syncPush, traceBuffer, errorBuffer, flushTracesReq, flushErrorsReq,
                   payload, wtrace, wdone, werr, wret, callerVars, histVars, spanVars,
                   globalVars>>

\* ------------------------------------------------------------ specification
WorkerLoop ==
    \/ WorkerRecvTrace
    \/ WorkerSizeCheck
    \/ \E c \in Threads : WorkerSyncSend(c)
    \/ WorkerTick
    \/ \E c \in Threads : WorkerRecvFlushAll(c)
    \/ WorkerRecvFlushTraces
    \/ WorkerRecvFlushErrors
    \/ WorkerFlushTraces
    \/ WorkerSendOk
    \/ WorkerSendErr
    \/ WorkerPeCheck
    \/ WorkerPeReq
    \/ WorkerPeSend
    \/ WorkerFlushErrors
    \/ WorkerAck

WorkerExit ==
    \/ \E c \in Threads : WorkerRecvExit(c)
    \/ WorkerReturn

Caller(c) ==
    \/ PushTrace(c)
    \/ CallerPeCheck(c)
    \/ CallerPeReq(c)
    \/ CallerPeSend(c)
    \/ Stop(c)
    \/ StopReturn(c)
    \/ ForceFlush(c)

Next == WorkerLoop \/ WorkerExit \/ \E c \in Threads : Caller(c)

Spec == Init /\ [][Next]_vars

\* The worker goroutine is scheduled: it takes a step whenever it can
\* (WorkerLoop \/ WorkerExit includes the rendezvous with a waiting caller),
\* and its select, which picks at random among the ready cases, does not
\* pass over a ready flushTracesReq or a fired ticker for ever. The callers
\* are under no obligation to make any call.
WorkerFairness ==
    /\ WF_vars(WorkerLoop \/ WorkerExit)
    /\ SF_vars(WorkerRecvFlushTraces)
    /\ SF_vars(WorkerTick)

SpecFair == Init /\ [][Next]_vars /\ WorkerFairness

\* A burst of pushTrace calls in asynchronous mode during which the worker
\* takes no step: long enough to fill the trace channel and then the error
\* channel.
BurstPushes == traceBufferSize + errorBufferSize + 2

PushTraceBurst(c) ==
    /\ pushed < BurstPushes
    /\ PushTraceSelect(c, SpanCount(pushed + 1))
    /\ UNCHANGED lastPush

InitBurst == Init /\ ~syncPush

NextBurst ==
    \E c \in Threads :
        \/ PushTraceBurst(c)
        \/ CallerPeCheck(c)
        \/ CallerPeReq(c)
        \/ CallerPeSend(c)

SpecBurst == InitBurst /\ [][NextBurst]_vars

\* A running tracer (no Stop call) whose callers push traces and force
\* flushes; lastPush follows each goroutine's last pushTrace call.
PushTraceTracked(c) ==
    /\ pushed < MaxPush
    /\ PushTraceSelect(c, SpanCount(pushed + 1))
    /\ lastPush' = [lastPush EXCEPT ![c] = pushed + 1]

NextFlush ==
    \/ WorkerLoop
    \/ \E c \in Threads :
          \/ PushTraceTracked(c)
          \/ CallerPeCheck(c)
          \/ CallerPeReq(c)
          \/ CallerPeSend(c)
          \/ ForceFlush(c)

SpecFlush == Init /\ [][NextFlush]_vars

\* ------------------------------------------------------------- StartSpan
\* Span and trace ids. random.Uint64() is modelled as a draw of an id no local
\* span has yet.
IDs == 1..MaxStartSpan
UsedIDs == {spans[i].SpanID : i \in 1..Len(spans)}

\* opts.Parent as StartSpan sees it: absent ("nil"), a ddtrace.SpanContext of
\* another type ("foreign", the type assertion fails), or a *spanContext
\* ("ctx") with its traceID, its spanID and its span (0 for nil, else the
\* index of the span in spans).
NoParent == [kind |-> "nil", traceID |-> 0, spanID |-> 0, span |-> 0]
ForeignParent == [kind |-> "foreign", traceID |-> 0, spanID |-> 0, span |-> 0]
\* Contexts that arrived from another process: no span reference, and ids
\* made by that process (here: none of the local ids).
RemoteContexts ==
    {[kind |-> "ctx", traceID |-> MaxStartSpan + t,
      spanID |-> MaxStartSpan + (t % MaxStartSpan) + 1, span |-> 0] : t \in IDs}
\* span.context of a local span: newSpanContext gives it the span's ids and
\* a reference to the span.
ContextOf(i) ==
    [kind |-> "ctx", traceID |-> spans[i].TraceID, spanID |-> spans[i].SpanID, span |-> i]
ParentOptions ==
    {NoParent, ForeignParent} \cup RemoteContexts \cup {ContextOf(i) : i \in 1..Len(spans)}

\* StartSpan's context variable is nil: no parent, or one of another type.
ContextIsNil(p) == p.kind # "ctx"

\* StartSpan sampling every span, the ones with a local parent too.
IsRootAlways(p) == TRUE

\* if context == nil || context.span == nil: a global or process-level root.
IsRoot(p) == ContextIsNil(p) \/ p.span = 0

\* sample() setting context.sampled to true whatever the sampler returned.
SampledFlagAlwaysTrue(ret) == TRUE

\* sample(): span.context.sampled = sampler.Sample(span).
SampledFlag(ret) == ret

\* sample(): Metrics[sampleRateMetricKey] is set iff the span was sampled by a
\* RateSampler with Rate() < 1 (a span StartSpan just made is not finished).
RateMetric(ret) == ret /\ samplerRate = "lt1"

\* The span defaults: TraceID = SpanID = id, ParentID = 0, no parent, no
\* context yet (sampled false), no metrics, no pid tag. `from` records p.
SpanDefaults(p, id) ==
    [SpanID |-> id, TraceID |-> id, ParentID |-> 0, parent |-> 0,
     sampled |-> FALSE, rate |-> FALSE, pid |-> FALSE, from |-> p]

\* StartSpan linking a local child to its parent span but leaving the default
\* TraceID = id.
LinkedKeepsOwnTrace(p, id) ==
    IF ContextIsNil(p)
    THEN SpanDefaults(p, id)
    ELSE IF p.span = 0
    THEN [SpanDefaults(p, id) EXCEPT !.TraceID = p.traceID, !.ParentID = p.spanID]
    ELSE [SpanDefaults(p, id) EXCEPT !.ParentID = spans[p.span].SpanID,
                                     !.parent = p.span,
                                     !.sampled = spans[p.span].sampled]

\* if context != nil: a remote parent gives the context's ids; a local parent
\* gives the parent span's ids, the parent reference and a context that
\* inherits the parent context's sampled flag.
Linked(p, id) ==
    IF ContextIsNil(p)
    THEN SpanDefaults(p, id)
    ELSE IF p.span = 0
    THEN [SpanDefaults(p, id) EXCEPT !.TraceID = p.traceID, !.ParentID = p.spanID]
    ELSE [SpanDefaults(p, id) EXCEPT !.TraceID = spans[p.span].TraceID,
                                     !.ParentID = spans[p.span].SpanID,
                                     !.parent = p.span,
                                     !.sampled = spans[p.span].sampled]

\* The span StartSpan returns for parent option p, random id `id` and sampler
\* verdict `ret` (read only when the sampler is invoked): a root gets a fresh
\* context, the pid tag and t.sample(span).
NewSpan(p, id, ret) ==
    IF IsRoot(p)
    THEN [Linked(p, id) EXCEPT !.sampled = SampledFlag(ret),
                               !.rate = RateMetric(ret),
                               !.pid = TRUE]
    ELSE Linked(p, id)

\* tracer.StartSpan with parent option p; t.sample(span) runs for a root.
StartSpan(p, id, ret) ==
    /\ Len(spans) < MaxStartSpan
    /\ spans' = Append(spans, NewSpan(p, id, ret))
    /\ sampleLog' = IF IsRoot(p)
                    THEN Append(sampleLog, [span |-> Len(spans) + 1, ret |-> ret])
                    ELSE sampleLog
    /\ UNCHANGED <<samplerRate, pipeVars, globalVars>>

\* A root: the sampler decides. A local child: the sampler is not asked.
NextSpan ==
    \E p \in ParentOptions, id \in IDs \ UsedIDs :
        \/ \E ret \in BOOLEAN : IsRoot(p) /\ StartSpan(p, id, ret)
        \/ ~IsRoot(p) /\ StartSpan(p, id, FALSE)

InitStartSpan == InitPipe /\ ~syncPush /\ InitSampler /\ InitGlobal

SpecSpan == InitStartSpan /\ [][NextSpan]_vars

\* ------------------------------------------------------------------ claims
\* Ids of the traces pushTrace put on traceBuffer so far: those still queued
\* and those the worker received.
Accepted == Range(Ids(traceBuffer)) \cup Range(dequeued)
InPushError(pc) == pc \in {"peCheck", "peReq", "peSend"}

\* C1: calling Stop twice is safe in every interleaving: the worker receives
\* at most one exit request and no Stop caller stays blocked, i.e. no caller
\* waits to send on exitReq once the worker has returned, and none waits on
\* stopped without the worker going to close it.
C1_StopTwiceSafe ==
    /\ exitReqs <= 1
    /\ \A c \in Threads : tpc[c] = "sendExit" => wpc # "done"

\* C2: with syncPush nil a pushTrace or pushError call never waits: in every
\* state each goroutine that may call pushTrace can take its select, each
\* goroutine inside pushError (a caller or the worker) can take its next
\* statement, and no pushTrace waits on the syncPush rendezvous.
C2_PushNeverWaits ==
    ~syncPush =>
        /\ \A c \in Threads :
              /\ (tpc[c] = "idle" /\ pushed < MaxPush) => ENABLED PushTrace(c)
              /\ tpc[c] = "peCheck" => ENABLED CallerPeCheck(c)
              /\ tpc[c] = "peReq" => ENABLED CallerPeReq(c)
              /\ tpc[c] = "peSend" => ENABLED CallerPeSend(c)
              /\ tpc[c] # "waitSync"
        /\ wpc = "peCheck" => ENABLED WorkerPeCheck
        /\ wpc = "peReq" => ENABLED WorkerPeReq
        /\ wpc = "peSend" => ENABLED WorkerPeSend

\* C2 witness: asynchronous mode, the worker inside transport.send, the trace
\* channel full, and a goroutine reporting the overflow of its push.
C2_Witness ==
    /\ ~syncPush
    /\ wpc = "sending"
    /\ Len(traceBuffer) = traceBufferSize
    /\ \E c \in Threads : tpc[c] = "peSend" /\ terr[c].kind = "overflow"

Min(a, b) == IF a < b THEN a ELSE b
Dropped == (1..pushed) \ Accepted
AllIdle == \A c \in Threads : tpc[c] = "idle"
\* Every record of errs is an overflow record, and the records can be matched
\* one to one with dropped traces of that many spans.
OverflowRecordsMatch(errs) ==
    /\ \A i \in 1..Len(errs) : errs[i].kind = "overflow"
    /\ \E f \in [1..Len(errs) -> Dropped] :
          /\ \A i, j \in 1..Len(errs) : f[i] = f[j] => i = j
          /\ \A i \in 1..Len(errs) : errs[i].count = SpanCount(f[i])
\* After n pushTrace calls with no worker step the first min(n, C) traces are
\* queued in order and the rest were dropped.
FirstAccepted ==
    /\ Ids(traceBuffer) = [i \in 1..Min(pushed, traceBufferSize) |-> i]
    /\ Dropped = (traceBufferSize + 1)..pushed

\* C3 as stated: after n pushTrace calls that the worker does not drain, the
\* first min(n, C) traces are accepted, the other n - C are dropped, and the
\* error queue holds n - C overflow records, one per dropped trace with its
\* span count.
C3_OverflowAsStated ==
    AllIdle =>
        /\ FirstAccepted
        /\ Len(errorBuffer) = Cardinality(Dropped)
        /\ OverflowRecordsMatch(errorBuffer)

\* C3 amended: as above, but a record pushed onto a full error queue is
\* discarded, so the error queue holds min(n - C, E) overflow records, each
\* matching a distinct dropped trace's span count.
C3_OverflowUpToErrorCapacity ==
    AllIdle =>
        /\ FirstAccepted
        /\ Len(errorBuffer) = Min(Cardinality(Dropped), errorBufferSize)
        /\ OverflowRecordsMatch(errorBuffer)

\* C3 witness: all calls returned, more traces dropped than the error queue
\* holds, traces of different span counts among the dropped.
C3_Witness ==
    /\ AllIdle
    /\ Cardinality(Dropped) > errorBufferSize
    /\ Len(errorBuffer) = errorBufferSize
    /\ errorBuffer[1].count # errorBuffer[2].count

IsPrefix(s, t) == Len(s) <= Len(t) /\ \A i \in 1..Len(s) : s[i] = t[i]
\* The worker is inside flushTraces (its pushError call included).
InFlushTraces ==
    \/ wpc \in {"flushTraces", "sending"}
    \/ InPushError(wpc) /\ werr.kind = "transport"
SnapIds(snap) == Range(Ids(snap.items))

\* C4: when flushTraces returns from a non-empty payload, every trace it found
\* was handed to the transport once by this call, and either the send
\* succeeded and the payload is reset (itemCount() = 0), or the send failed and
\* the payload is what it was when the call began (so the next flush sends the
\* same traces again).
C4_FlushOutcome ==
    [][(InFlushTraces /\ ~InFlushTraces' /\ wpre.items # <<>>) =>
          /\ \A k \in SnapIds(wpre) : sentCount'[k] = wpre.sent[k] + 1
          /\ \/ wpc = "sending" /\ Len(payload') = 0
             \/ wpc = "peSend" /\ werr.kind = "transport" /\ payload' = wpre.items]_vars

\* C4 witness: a trace went out in a failed send, stayed in the payload, went
\* out again with the next flush, which succeeded and reset the payload.
C4_Witness ==
    /\ wpc = "select"
    /\ sendFails = 1
    /\ payload = <<>>
    /\ \E k \in 1..MaxPush : sentCount[k] = 2

\* forceFlush of goroutine c returns: the worker's done <- struct{}{} meets it.
ForceFlushReturns(c) == tpc[c] = "waitDone" /\ tpc'[c] = "idle"

C6_ConsumedExactlyOnce ==
    /\ \A k \in Accepted : Count(dequeued, k) <= 1
    /\ wpc = "done" => \A k \in Accepted : Count(dequeued, k) = 1

\* State part of C7: stopped is closed only by a worker that has returned, and
\* once the final flushTraces is over every trace that was in the payload at
\* the exit request has been handed to the transport.
C7_FinalFlushState ==
    /\ stopped => wpc = "done"
    /\ (exitReqs > 0 /\ wpc \in {"flushErrors", "return", "done"}) =>
          \A k \in SnapIds(exitSnap) : sentCount[k] > exitSnap.sent[k]
\* Step part of C7: the order exit request, flushTraces, flushErrors, return,
\* close(stopped), Stop's return; after the close the worker takes no step.
C7_FinalFlushStep ==
    /\ (\E c \in Threads : tpc[c] = "sendExit" /\ tpc'[c] # "sendExit") =>
          wcase' = "exit" /\ wpc' = "flushTraces"
    /\ (wpc' = "return" /\ wpc # "return") =>
          wpc = "flushErrors" /\ wcase = "exit" /\ errorBuffer' = <<>>
    /\ (stopped' /\ ~stopped) => wpc = "return"
    /\ (\E c \in Threads : tpc[c] = "waitStopped" /\ tpc'[c] = "idle") => stopped
    /\ stopped =>
          /\ stopped'
          /\ wpc' = wpc
          /\ payload' = payload
          /\ sentCount' = sentCount
          /\ dequeued' = dequeued
          /\ flushTracesReq' = flushTracesReq
          /\ flushErrorsReq' >= flushErrorsReq
          /\ IsPrefix(traceBuffer, traceBuffer')
          /\ IsPrefix(errorBuffer, errorBuffer')
\* C7: an exit request makes the worker run flushTraces, then flushErrors, and
\* only then return and close stopped; Stop returns only after the close, when
\* every trace that was in the payload at the exit request has been handed to
\* the transport by the final flush; once stopped is closed the worker takes
\* no step: payload, transport and channels keep what the callers leave them.
C7_FinalFlushThenStop == []C7_FinalFlushState /\ [][C7_FinalFlushStep]_vars

\* C7 witness: Stop has returned, the payload held traces when the exit
\* request arrived, and a trace pushed after the close sits in the channel.
C7_Witness ==
    /\ stopped
    /\ AllIdle
    /\ exitSnap.items # <<>>
    /\ traceBuffer # <<>>

\* The span at the top of span i's chain of local parent references.
RECURSIVE LocalRoot(_)
LocalRoot(i) == IF spans[i].parent = 0 THEN i ELSE LocalRoot(spans[i].parent)
SpanIdx == 1..Len(spans)
HasLocalParent(i) == spans[i].from.kind = "ctx" /\ spans[i].from.span # 0
HasRemoteParent(i) == spans[i].from.kind = "ctx" /\ spans[i].from.span = 0
\* Sampler invocations on the spans of set S.
SamplerCalls(S) == Cardinality({j \in 1..Len(sampleLog) : sampleLog[j].span \in S})

\* C8: a span with a local parent has the parent's TraceID and the parent's
\* SpanID as ParentID; with a remote parent context the context's trace id and
\* span id; with no parent TraceID = SpanID and ParentID = 0. Every span has
\* the TraceID of the root of its chain of local parents.
C8_ParentLinkage ==
    \A i \in SpanIdx :
        /\ HasLocalParent(i) =>
              /\ spans[i].TraceID = spans[spans[i].from.span].TraceID
              /\ spans[i].ParentID = spans[spans[i].from.span].SpanID
        /\ HasRemoteParent(i) =>
              /\ spans[i].TraceID = spans[i].from.traceID
              /\ spans[i].ParentID = spans[i].from.spanID
        /\ spans[i].from.kind # "ctx" =>
              /\ spans[i].TraceID = spans[i].SpanID
              /\ spans[i].ParentID = 0
        /\ spans[i].TraceID = spans[LocalRoot(i)].TraceID

\* C8 witness: a remote child with a local child and a local grandchild.
C8_Witness ==
    /\ Len(spans) = 3
    /\ HasRemoteParent(1)
    /\ spans[1].TraceID # spans[1].SpanID
    /\ spans[2].from = ContextOf(1)
    /\ spans[3].from = ContextOf(2)

\* C9 as stated: among all spans that share a TraceID the sampler has been
\* invoked exactly once.
C9_OneDecisionPerTraceID ==
    \A i \in SpanIdx :
        SamplerCalls({j \in SpanIdx : spans[j].TraceID = spans[i].TraceID}) = 1

\* C9 amended: among all spans that share a process-level root (the top of
\* their chain of local parents) the sampler has been invoked exactly once, on
\* that root.
C9_OneDecisionPerLocalRoot ==
    \A i \in SpanIdx :
        /\ SamplerCalls({j \in SpanIdx : LocalRoot(j) = LocalRoot(i)}) = 1
        /\ SamplerCalls({LocalRoot(i)}) = 1

\* C9 witness: two spans started from one remote context, one of them with a
\* local child: three spans of one TraceID, two process-level roots.
C9_Witness ==
    /\ Len(spans) = 3
    /\ HasRemoteParent(1)
    /\ spans[2].from = spans[1].from
    /\ spans[3].from = ContextOf(1)

\* C10: StartSpan invokes the sampler once for a root (no parent context, or
\* one without a span reference) and not at all for a span with a local
\* parent; the root's context.sampled is what the sampler returned.
C10_SamplerOncePerRoot ==
    \A i \in SpanIdx :
        /\ HasLocalParent(i) => SamplerCalls({i}) = 0
        /\ ~HasLocalParent(i) =>
              /\ SamplerCalls({i}) = 1
              /\ \A j \in 1..Len(sampleLog) :
                    sampleLog[j].span = i => spans[i].sampled = sampleLog[j].ret

\* C10 witness: a root the sampler rejected, a remote child it accepted, and a
\* local child.
C10_Witness ==
    /\ Len(spans) = 3
    /\ spans[1].from.kind # "ctx" /\ ~spans[1].sampled
    /\ HasRemoteParent(2) /\ spans[2].sampled
    /\ HasLocalParent(3)
    /\ Len(sampleLog) = 2

\* ------------------------------------------------------------------- C11
\* C11: only the worker touches the payload: every step that changes the
\* payload or hands it to the transport is a step of the worker (its position
\* moves, no caller goroutine moves), whatever the callers of pushTrace,
\* pushError, forceFlush and Stop are doing; and flushes do not overlap: a
\* transport.send starts only at the head of flushTraces, on the payload that
\* flushTraces found, and while it is under way the payload changes only by
\* that flush's reset.
C11_WorkerOwnsPayload ==
    [][/\ (payload' # payload \/ sentCount' # sentCount) =>
             /\ callerVars' = callerVars
             /\ wpc' # wpc
             /\ wpc \in {"select", "flushTraces", "sending"}
       /\ sentCount' # sentCount =>
             /\ wpc = "flushTraces" /\ wpc' = "sending"
             /\ wpre.items = payload
       /\ (wpc = "sending" /\ payload' # payload) =>
             /\ payload' = <<>>
             /\ wpc' # "sending"]_vars

\* C11 witness: the worker is inside transport.send while one goroutine waits
\* in forceFlush and another is in Stop, about to send on exitReq.
C11_Witness ==
    /\ wpc = "sending"
    /\ payload # <<>>
    /\ \E c \in Threads : tpc[c] = "waitDone"
    /\ \E c \in Threads : tpc[c] = "sendExit"

\* ------------------------------------------------------------------- C12
\* The step in which the pushError call made for a failed transport.send
\* returns, and with it flushTraces.
TransportErrorReturns ==
    wpc = "peSend" /\ werr.kind = "transport" /\ wpc' # "peSend"

HasRecord(q, e) == \E i \in 1..Len(q) : q[i] = e

\* C12 as stated: whenever flushTraces returns after a failed transport.send,
\* a transport error record with the payload's item count is in the error
\* queue, whatever the queue's fill level was.
C12_SendFailureQueuedAsStated ==
    [][TransportErrorReturns =>
          HasRecord(errorBuffer', transportError(Len(payload')))]_vars

\* C12 amended: a failed transport.send always calls pushError with a
\* transport error record that carries the payload's item count and keeps the
\* payload; when flushTraces returns the record has been appended to the
\* error queue if the queue had room at that moment, and has been discarded
\* (the queue is unchanged) if the queue was full.
C12_SendFailureOffered ==
    [][/\ (wpc = "sending" /\ sendFails' # sendFails) =>
             /\ wpc' = "peCheck"
             /\ werr' = transportError(Len(payload))
             /\ payload' = payload
       /\ TransportErrorReturns =>
             /\ werr = transportError(Len(payload))
             /\ payload' = payload
             /\ errorBuffer' = IF Len(errorBuffer) < errorBufferSize
                                THEN Append(errorBuffer, werr)
                                ELSE errorBuffer]_vars

\* C12 witness: a timer flush whose send has just failed (the payload is
\* still there) found the error queue full of other records: the transport
\* error record was discarded.
C12_Witness ==
    /\ wpc = "flushErrors"
    /\ wcase = "tick"
    /\ payload # <<>>
    /\ sendFails = 1
    /\ Len(errorBuffer) = errorBufferSize
    /\ \A i \in 1..Len(errorBuffer) : errorBuffer[i].kind # "transport"

\* ------------------------------------------------------------------- C13
\* C13: in synchronous mode a pushTrace call returns from <-t.syncPush only
\* after the worker has received the call's own trace from the trace channel
\* and has gone through pushPayload's merge of it, for any number of
\* concurrent producers.
C13_SyncPushReturnsAfterMerge ==
    [][\A c \in Threads :
          (syncPush /\ tpc[c] = "waitSync" /\ tpc'[c] = "idle") =>
              lastPush[c] \in Range(dequeued)]_vars

\* ------------------------------------------- package-level Start and Stop
\* One goroutine calls the package's Start and Stop one after the other. A
\* tracer made by newTracer is seen through its worker: "running" (in the
\* select loop), "flushing" (exit request received, final flush under way),
\* "exited" (returned, t.stopped closed).
Idle == [call |-> "none", at |-> "idle"]
Made == {t \in 1..MaxTracers : gworker[t] # "none"}
Live == {t \in 1..MaxTracers : gworker[t] \in {"running", "flushing"}}

pkgOther == <<pipeVars, spanVars>>

\* Start without its internal.GlobalTracer.Stop() call.
PkgStartNoStop ==
    /\ gpc = Idle
    /\ gcalls < MaxCalls
    /\ Cardinality(Made) < MaxTracers
    /\ gcalls' = gcalls + 1
    /\ gpc' = IF Testing THEN Idle ELSE [call |-> "Start", at |-> "finish"]
    /\ UNCHANGED <<GlobalTracer, Testing, gworker, pkgOther>>

\* Start: returns at once when internal.Testing is set, else goes on to
\* internal.GlobalTracer.Stop().
PkgStart ==
    /\ gpc = Idle
    /\ gcalls < MaxCalls
    /\ Cardinality(Made) < MaxTracers
    /\ gcalls' = gcalls + 1
    /\ gpc' = IF Testing THEN Idle ELSE [call |-> "Start", at |-> "stop"]
    /\ UNCHANGED <<GlobalTracer, Testing, gworker, pkgOther>>

\* Stop: goes on to internal.GlobalTracer.Stop().
PkgStop ==
    /\ gpc = Idle
    /\ gcalls < MaxCalls
    /\ gcalls' = gcalls + 1
    /\ gpc' = [call |-> "Stop", at |-> "stop"]
    /\ UNCHANGED <<GlobalTracer, Testing, gworker, pkgOther>>

\* internal.GlobalTracer.Stop(): the NoopTracer's Stop does nothing; a
\* tracer's Stop returns when t.stopped is closed and else goes on to the send
\* on exitReq.
GlobalStop ==
    /\ gpc.at = "stop"
    /\ gpc' = [gpc EXCEPT !.at = IF GlobalTracer = Noop THEN "finish"
                                 ELSE IF gworker[GlobalTracer] = "exited" THEN "finish"
                                 ELSE "sendExit"]
    /\ UNCHANGED <<GlobalTracer, Testing, gworker, gcalls, pkgOther>>

\* tracer.Stop's t.exitReq <- struct{}{} meets the worker's case <-t.exitReq.
GlobalStopSendExit ==
    /\ gpc.at = "sendExit"
    /\ gworker[GlobalTracer] = "running"
    /\ gworker' = [gworker EXCEPT ![GlobalTracer] = "flushing"]
    /\ gpc' = [gpc EXCEPT !.at = "waitStopped"]
    /\ UNCHANGED <<GlobalTracer, Testing, gcalls, pkgOther>>

\* The worker's exit case: t.flush(), return, the deferred close(t.stopped).
GlobalWorkerExit(t) ==
    /\ gworker[t] = "flushing"
    /\ gworker' = [gworker EXCEPT ![t] = "exited"]
    /\ UNCHANGED <<GlobalTracer, Testing, gpc, gcalls, pkgOther>>

\* tracer.Stop's <-t.stopped returns once the channel is closed.
GlobalStopReturn ==
    /\ gpc.at = "waitStopped"
    /\ gworker[GlobalTracer] = "exited"
    /\ gpc' = [gpc EXCEPT !.at = "finish"]
    /\ UNCHANGED <<GlobalTracer, Testing, gworker, gcalls, pkgOther>>

\* Start: internal.GlobalTracer = newTracer(opts...); newTracer starts the
\* new tracer's worker.
PkgStartInstall ==
    /\ gpc = [call |-> "Start", at |-> "finish"]
    /\ GlobalTracer' = Cardinality(Made) + 1
    /\ gworker' = [gworker EXCEPT ![Cardinality(Made) + 1] = "running"]
    /\ gpc' = Idle
    /\ UNCHANGED <<Testing, gcalls, pkgOther>>

\* Stop: internal.GlobalTracer = &internal.NoopTracer{}
PkgStopReset ==
    /\ gpc = [call |-> "Stop", at |-> "finish"]
    /\ GlobalTracer' = Noop
    /\ gpc' = Idle
    /\ UNCHANGED <<Testing, gworker, gcalls, pkgOther>>

NextPackage ==
    \/ PkgStart
    \/ PkgStop
    \/ GlobalStop
    \/ GlobalStopSendExit
    \/ \E t \in 1..MaxTracers : GlobalWorkerExit(t)
    \/ GlobalStopReturn
    \/ PkgStartInstall
    \/ PkgStopReset

\* The program starts with the NoopTracer installed; the mock tracer may be
\* active (internal.Testing set).
InitPackage ==
    /\ InitPipe
    /\ ~syncPush
    /\ InitSpan
    /\ GlobalTracer = Noop
    /\ Testing \in BOOLEAN
    /\ gworker = [t \in 1..MaxTracers |-> "none"]
    /\ gpc = Idle
    /\ gcalls = 0

SpecPackage == InitPackage /\ [][NextPackage]_vars

\* ------------------------------------------------------------------- C14
\* State part of C14: at most one worker is alive; between calls the alive
\* worker is the one of the installed tracer; with Testing set no tracer is
\* ever made or installed.
C14_LifecycleState ==
    /\ Cardinality(Live) <= 1
    /\ gpc = Idle => Live = (IF GlobalTracer = Noop THEN {} ELSE {GlobalTracer})
    /\ Testing => GlobalTracer = Noop /\ Made = {}

\* Step part of C14: Stop returns with the NoopTracer installed; a Stop call
\* that finds the NoopTracer changes no worker; Start installs its new tracer
\* only after the previous one's worker has exited.
C14_LifecycleStep ==
    /\ (gpc.call = "Stop" /\ gpc' = Idle) => GlobalTracer' = Noop
    /\ (gpc.call = "Stop" /\ GlobalTracer = Noop) =>
          gworker' = gworker /\ GlobalTracer' = Noop
    /\ (gpc.call = "Start" /\ gpc' = Idle) =>
          /\ GlobalTracer = Noop \/ gworker[GlobalTracer] = "exited"
          /\ GlobalTracer' \notin Made
          /\ gworker'[GlobalTracer'] = "running"

\* C14: after the package-level Stop the global tracer is the NoopTracer and
\* further Stop calls change nothing; Start stops the installed tracer and
\* waits for its worker to exit before it installs the new one, so after any
\* sequential series of Start and Stop calls at most one worker is running,
\* that of the installed tracer; with Testing set, Start leaves the global
\* tracer alone and starts no worker.
C14_GlobalLifecycle == []C14_LifecycleState /\ [][C14_LifecycleStep]_vars

\* C14 witness: two Start calls in a row: the first tracer's worker has
\* exited, the second tracer is installed and its worker runs.
C14_Witness ==
    /\ gpc = Idle
    /\ gcalls = 2
    /\ GlobalTracer = 2
    /\ gworker[1] = "exited"
    /\ gworker[2] = "running"

\* ------------------------------------------------------------------- C15
\* The worker is inside a flush that has yet to run flushErrors.
ErrorsFlushUnderWay ==
    /\ wcase \in {"errors", "tick", "all", "exit"}
    /\ wpc \in {"flushTraces", "sending", "peCheck", "peReq", "peSend", "flushErrors"}

HalfFull(q) == Len(q) >= errorBufferSize \div 2

\* C15 as stated: whenever a pushError call returns and leaves the error
\* queue holding at least capacity/2 records, a flush-errors request is
\* pending or being serviced.
C15_HalfFullRequestedAsStated ==
    [][/\ \A c \in Threads :
             (tpc[c] = "peSend" /\ tpc'[c] # "peSend" /\ HalfFull(errorBuffer')) =>
                 flushErrorsReq' = 1 \/ ErrorsFlushUnderWay'
       /\ (wpc = "peSend" /\ wpc' # "peSend" /\ HalfFull(errorBuffer')) =>
             flushErrorsReq' = 1 \/ ErrorsFlushUnderWay']_vars

\* C15 amended: a pushError call tests the queue before it adds its record:
\* it goes on to the non-blocking send of a flush-errors request exactly when
\* it finds at least capacity/2 records already queued, and after that send a
\* request is pending; a call that finds fewer makes no request, also when its
\* own record brings the queue to capacity/2.
C15_RequestWhenFoundHalfFull ==
    [][/\ \A c \in Threads :
             /\ (tpc[c] = "peCheck" /\ tpc'[c] # "peCheck") =>
                   /\ tpc'[c] = IF HalfFull(errorBuffer) THEN "peReq" ELSE "peSend"
                   /\ flushErrorsReq' = flushErrorsReq
             /\ (tpc[c] = "peReq" /\ tpc'[c] # "peReq") =>
                   tpc'[c] = "peSend" /\ flushErrorsReq' = 1
             /\ (tpc[c] = "peSend" /\ tpc'[c] # "peSend") =>
                   flushErrorsReq' = flushErrorsReq
       /\ (wpc = "peCheck" /\ wpc' # "peCheck") =>
             /\ wpc' = IF HalfFull(errorBuffer) THEN "peReq" ELSE "peSend"
             /\ flushErrorsReq' = flushErrorsReq
       /\ (wpc = "peReq" /\ wpc' # "peReq") =>
             wpc' = "peSend" /\ flushErrorsReq' = 1
       /\ (wpc = "peSend" /\ wpc' # "peSend") =>
             flushErrorsReq' = flushErrorsReq]_vars

\* C15 witness: a caller's pushError found the queue half full and its request
\* is pending, while the worker's own pushError is about to test the queue.
C15_Witness ==
    /\ \E c \in Threads : tpc[c] = "peSend"
    /\ flushErrorsReq = 1
    /\ HalfFull(errorBuffer)
    /\ wpc = "peCheck"

\* ------------------------------------------------------------------- C16
\* State part of C16: at most one flush-traces and one flush-errors request
\* is pending, and the worker can always take the step that enqueues one.
C16_CoalescedState ==
    /\ flushTracesReq \in {0, 1}
    /\ flushErrorsReq \in {0, 1}
    /\ wpc = "sizeCheck" => ENABLED WorkerSizeCheck
    /\ wpc = "peReq" => ENABLED WorkerPeReq

\* Step part of C16: when pushPayload's size test finds the payload above
\* payloadSizeLimit a flush-traces request is pending afterwards, and it
\* stays pending until the worker receives it.
C16_RequestStep ==
    /\ (wpc = "sizeCheck" /\ wpc' # "sizeCheck" /\ SumSpans(payload) > payloadSizeLimit) =>
          flushTracesReq' = 1
    /\ flushTracesReq' < flushTracesReq => (wpc = "select" /\ wpc' = "flushTraces")

\* C16: after a merge that leaves the payload above the size threshold a
\* flush-traces request is pending when pushPayload returns; requests are
\* coalesced, at most one of each kind is pending, and the worker never waits
\* to enqueue one; with a scheduled worker a pending flush-traces request
\* leads to an execution of flushTraces or to the final flush at exit.
C16_SizeTriggeredFlush ==
    /\ []C16_CoalescedState
    /\ [][C16_RequestStep]_vars
    /\ (flushTracesReq = 1) ~> (wpc = "flushTraces" \/ exitReqs > 0)

\* C16 witness: the worker has received the flush-traces request that a merge
\* above the threshold enqueued and is sending that payload.
C16_Witness ==
    /\ wcase = "traces"
    /\ wpc = "sending"
    /\ SumSpans(payload) > payloadSizeLimit
    /\ flushTracesReq = 0

\* ------------------------------------------------------------------- C17
\* Step part of C17: the ticker case enters flushTraces; a timer flush
\* reaches flushErrors only out of flushTraces and ends only out of
\* flushErrors, which empties the error queue.
C17_TickStep ==
    /\ (wpc = "select" /\ wcase' = "tick") => wpc' = "flushTraces"
    /\ (wcase = "tick" /\ wpc # "flushErrors" /\ wpc' = "flushErrors") =>
          wpc \in {"flushTraces", "sending", "peSend"}
    /\ (wcase = "tick" /\ wpc' = "select") =>
          wpc = "flushErrors" /\ errorBuffer' = <<>>

\* Trace k is in the payload.
InPayload(k) == \E i \in 1..Len(payload) : payload[i].id = k

\* C17: a timer tick makes the worker run a full flush, flushTraces and then
\* flushErrors; with a scheduled worker whose ticker keeps firing and a
\* transport that fails only finitely often, every trace in the payload is
\* eventually sent and removed by the payload's reset (a trace leaves the
\* payload only after a send, and a non-empty payload is eventually emptied),
\* unless an exit request ends the worker; no caller has to ask for a flush.
C17_TimerFlush ==
    /\ [][C17_TickStep]_vars
    /\ [][\A k \in 1..MaxPush : (InPayload(k) /\ ~InPayload(k)') => sentCount[k] > 0]_vars
    /\ (payload # <<>>) ~> (payload = <<>> \/ exitReqs > 0)

\* C17 witness: no caller asked for a flush or a stop and the payload never
\* went above the size threshold; a timer flush has sent the one trace and
\* reset the payload, and is about to flush the errors.
C17_Witness ==
    /\ wcase = "tick"
    /\ wpc = "flushErrors"
    /\ payload = <<>>
    /\ dequeued = <<1>>
    /\ sentCount[1] = 1
    /\ flushCalls = 0
    /\ stopCalls = 0

\* ------------------------------------------------------------------- C18
\* State part of C18: a rejected trace is never in the payload and never
\* sent, and the worker handling a rejection is never stuck: each step of its
\* pushError call and the size test that follows can be taken.
C18_RejectedState ==
    /\ \A k \in rejected : ~InPayload(k) /\ sentCount[k] = 0
    /\ wpc = "peCheck" => ENABLED WorkerPeCheck
    /\ wpc = "peReq" => ENABLED WorkerPeReq
    /\ wpc = "peSend" => ENABLED WorkerPeSend
    /\ wpc = "sizeCheck" => ENABLED WorkerSizeCheck
    /\ (wpc = "select" /\ traceBuffer # <<>>) => ENABLED WorkerRecvTrace
    /\ wpc = "select" => ENABLED WorkerTick

\* Step part of C18: the step in which payload.push returns an error leaves
\* the payload as it was and calls pushError once with an encoding error
\* record; that call offers the record to the error queue and returns into
\* pushPayload, which goes on to its size test.
C18_RejectedStep ==
    /\ rejected' # rejected =>
          /\ payload' = payload
          /\ werr' = encodingError
          /\ wpc' = "peCheck"
          /\ wcase' = "trace"
    /\ (wpc = "peSend" /\ werr.kind = "encoding" /\ wpc' # "peSend") =>
          /\ errorBuffer' = IF Len(errorBuffer) < errorBufferSize
                             THEN Append(errorBuffer, encodingError)
                             ELSE errorBuffer
          /\ wpc' = "sizeCheck"
          /\ payload' = payload

\* C18: when payload.push returns an error the trace is dropped, the payload
\* (its size and item count) is unchanged, one encoding error record is
\* reported through pushError, and the worker goes on: it finishes
\* pushPayload and serves later traces and flushes.
C18_EncodingFailure == []C18_RejectedState /\ [][C18_RejectedStep]_vars

\* C18 witness: the first trace was rejected and its record queued; the
\* worker then merged the second trace and a flush is sending it.
C18_Witness ==
    /\ rejected = {1}
    /\ InPayload(2)
    /\ wpc = "sending"
    /\ HasRecord(errorBuffer, encodingError)

\* ------------------------------------------------------------------- C19
\* A sequence of trace ids in ascending order. pushTrace numbers the traces in
\* the order of its sends on the trace channel, so ascending ids are arrival
\* order.
Ascending(q) == \A i, j \in 1..Len(q) : i < j => q[i] < q[j]

\* C19: the worker receives, and pushes onto the payload, the accepted traces
\* in the order in which they entered the trace channel: the traces received
\* so far, the traces in the payload and the traces still queued are each in
\* arrival order, and every queued trace arrived after every received one.
C19_ArrivalOrder ==
    /\ Ascending(dequeued)
    /\ Ascending(Ids(payload))
    /\ Ascending(Ids(traceBuffer))
    /\ \A i \in 1..Len(dequeued), j \in 1..Len(traceBuffer) :
          dequeued[i] < traceBuffer[j].id

\* C19 witness: traces 1, 2 and 4 were received in that order (trace 3 met a
\* full channel), and at least two of them are in the payload.
C19_Witness ==
    /\ dequeued = <<1, 2, 4>>
    /\ Len(payload) >= 2

\* ------------------------------------------------------------------- C20
\* C20: no forceFlush call is left waiting on a worker that has exited: when
\* the worker returns (also on a Stop made by another goroutine while the
\* forceFlush is under way), no goroutine is inside forceFlush, at the send on
\* flushAllReq or at the receive from done.
C20_ForceFlushNotStranded ==
    [][(wpc # "done" /\ wpc' = "done") =>
          \A c \in Threads : tpc[c] \notin {"sendFlushAll", "waitDone"}]_vars

====
